---- MODULE Spec2Model ----
(***************************************************************************)
(* Braille3D: the finite state machine engine (FSM.process), its two       *)
(* instances BrailleTokeniser and BrailleTranslator, the dot-pattern /     *)
(* Unicode conversion maps and the "dumb" translation path of the driver.  *)
(*                                                                         *)
(* A character is its Unicode code point, a text is a sequence of code     *)
(* points, a token is a pair <<text, tag>>.  Python's None is the empty    *)
(* tuple where a text or a transition is expected and the tag "None"       *)
(* where a tag is expected.                                                *)
(***************************************************************************)
EXTENDS Integers, Sequences, FiniteSets, TLC

VARIABLES
    entry,         \* entry point exercised: "core", "translator", "fsm", "echo",
                   \* "tokens"
    in_toks,       \* argument of the first call of process (text or token list)
    client,        \* next-state targets of the caller-built machine (entry "fsm")
    same_object,   \* whether a literal '|' of a caller is the object self.end
    fsm,           \* class of the machine whose process() is running
    in_seq,        \* FSM.process: pending input tokens
    out_txt,       \* FSM.process: text buffer (None or <<text>>)
    out_seq,       \* FSM.process: output records
    state,         \* FSM.process: current state
    tokens,        \* braille.py: result of the tokeniser
    unicode_dots,  \* braille.py: text of the first record of the translator
    line,          \* braille.py: dot patterns of the characters of unicode_dots
    pc             \* control: "loop", "returned", "None", "done", "IndexError",
                   \* "line", "KeyError"

vars == <<entry, in_toks, client, same_object, fsm, in_seq, out_txt, out_seq, state,
          tokens, unicode_dots, line, pc>>

(***************************************************************************)
(* Characters and strings.                                                 *)
(***************************************************************************)
ascii_lo == " !\"#$%&'()*+,-./0123456789:;<=>?@ABCDEFGHIJKLMNOPQRSTUVWXYZ[\\]^_"
ascii_hi == "abcdefghijklmnopqrstuvwxyz{|}~"

\* code point of a one-character string
ord(c) ==
    IF c = "\t" THEN 9
    ELSE IF \E i \in 1..Len(ascii_lo) : SubSeq(ascii_lo, i, i) = c
         THEN 31 + (CHOOSE i \in 1..Len(ascii_lo) : SubSeq(ascii_lo, i, i) = c)
         ELSE 96 + (CHOOSE i \in 1..Len(ascii_hi) : SubSeq(ascii_hi, i, i) = c)

\* a string literal as the sequence of its characters
Str(s) == [i \in 1..Len(s) |-> ord(SubSeq(s, i, i))]

Chars(t) == {t[i] : i \in 1..Len(t)}

None == <<>>
NoTag == "None"

\* str.upper() and str.lower() on one character (ASCII letters change)
upper_char(c) == IF c \in ord("a")..ord("z") THEN c - 32 ELSE c
lower_char(c) == IF c \in ord("A")..ord("Z") THEN c + 32 ELSE c
str_upper(t) == [i \in 1..Len(t) |-> upper_char(t[i])]
\* mutant: the text is not lowered
str_lower_none(t) == t

str_lower(t) == [i \in 1..Len(t) |-> lower_char(t[i])]

\* t[::-1]
reversed(t) == [i \in 1..Len(t) |-> t[Len(t) + 1 - i]]

\* str.find(x): 0-based index of the first occurrence of x in t, or -1
str_find(t, x) ==
    LET hits == {i \in 0..(Len(t) - Len(x)) : SubSeq(t, i + 1, i + Len(x)) = x}
    IN IF hits = {} THEN -1 ELSE CHOOSE i \in hits : \A j \in hits : i <= j

(***************************************************************************)
(* braille_unicode.get_conversion_maps                                     *)
(***************************************************************************)
\* f'{n:0wb}': n in binary, w digits
bin(n, w) == [k \in 1..w |-> ord("0") + ((n \div (2 ^ (w - k))) % 2)]

\* the six binary digits are not reversed
dot_str_forward(page_i, i) ==
    LET r == bin(page_i, 2) \o bin(i, 4)
    IN SubSeq(r, 1, 3) \o Str(" ") \o SubSeq(r, 4, 6)

dot_str(page_i, i) ==
    LET r == reversed(bin(page_i, 2) \o bin(i, 4))
    IN SubSeq(r, 1, 3) \o Str(" ") \o SubSeq(r, 4, 6)

\* chr(int(f'28{page_i:1}{i:1X}', 16)): the hex digits 2, 8, page_i, i
uni_char(page_i, i) == <<((2 * 16 + 8) * 16 + page_i) * 16 + i>>

pages == (0..3) \X (0..15)

\* the pair written last under a key is the one the dict keeps
last_pair(S) == CHOOSE p \in S : \A q \in S : 16 * q[1] + q[2] <= 16 * p[1] + p[2]

dots2unicode ==
    [d \in {dot_str(p[1], p[2]) : p \in pages} |->
        LET p == last_pair({q \in pages : dot_str(q[1], q[2]) = d})
        IN uni_char(p[1], p[2])]

unicode2dots ==
    [u \in {uni_char(p[1], p[2]) : p \in pages} |->
        LET p == last_pair({q \in pages : uni_char(q[1], q[2]) = u})
        IN dot_str(p[1], p[2])]

(***************************************************************************)
(* FSM: transitions and state tables.                                      *)
(***************************************************************************)
\* an entry of an outputPush list: the machine's end marker (found by
\* reference, "txt is self.end") or a literal text
end == [is_end |-> TRUE, txt |-> Str("|")]
lit(t) == [is_end |-> FALSE, txt |-> t]

Transition(in_, out_, state_) == [in |-> in_, out |-> out_, state |-> state_]

RECURSIVE update(_)
\* t = {}; for transition_map in transition_map_list: t.update(transition_map)
update(transition_map_list) ==
    IF transition_map_list = <<>> THEN [k \in {} |-> None]
    ELSE LET n == Len(transition_map_list)
         IN transition_map_list[n] @@ update(SubSeq(transition_map_list, 1, n - 1))

add_state(states, name, transition_map_list) ==
    (name :> [transitions |-> update(transition_map_list)]) @@ states

no_states == [n \in {} |-> None]

\* FSM.transform of the base class
FSM_transform(txt, tag, st) == None

\* the record of the buffer is tagged with the popped token's tag
postprocess_tag(txt, tag, st) == IF txt = None THEN <<>> ELSE << <<txt[1], tag>> >>

\* FSM.postprocess
postprocess(txt, tag, st) == IF txt = None THEN <<>> ELSE << <<txt[1], st>> >>

(***************************************************************************)
(* BrailleFSM tags and BrailleTokeniser.setup                              *)
(***************************************************************************)
whitespace_tag == "whitespace"
lower_tag == "lower_str"
upper_tag == "upper_str"
mixed_tag == "mixed_str"
alphanum_tag == "alphanum"
number_tag == "number"
punctuation_tag == "punctuation"

lower == Str("abcdefghijklmnopqrstuvwxyz")
upper == str_upper(lower)
digit == Str("0123456789")
white == Str("\t ")
punct == Str(",.;:")

\* {k: ([], [k], tag) for k in chars}
keep(chars, tag) ==
    [t \in {<<k>> : k \in Chars(chars)} |-> Transition(<<>>, <<lit(t)>>, tag)]

\* mutant: the flush drops the character that caused it
flush_drop(chars, tag) ==
    [t \in {<<k>> : k \in Chars(chars)} |-> Transition(<<>>, <<end>>, tag)]

\* {k: ([], [self.end,k], tag) for k in chars}
flush(chars, tag) ==
    [t \in {<<k>> : k \in Chars(chars)} |-> Transition(<<>>, <<end, lit(t)>>, tag)]

punctuation_state ==
    << keep(punct, punctuation_tag),
       flush(lower, lower_tag),
       flush(upper, upper_tag),
       flush(digit, number_tag),
       flush(white, whitespace_tag) >>

whitespace_state ==
    << flush(lower, lower_tag),
       flush(upper, upper_tag),
       flush(digit, number_tag),
       flush(white, whitespace_tag),
       flush(punct, punctuation_tag) >>

\* lower + upper stays an uppercase run
lower_state_upper ==
    << keep(lower, lower_tag),
       keep(upper, upper_tag),
       keep(digit, alphanum_tag),
       flush(white, whitespace_tag),
       flush(punct, punctuation_tag) >>

lower_state ==
    << keep(lower, lower_tag),
       keep(upper, mixed_tag),
       keep(digit, alphanum_tag),
       flush(white, whitespace_tag),
       flush(punct, punctuation_tag) >>

upper_state ==
    << keep(lower, mixed_tag),
       keep(upper, upper_tag),
       keep(digit, alphanum_tag),
       flush(white, whitespace_tag),
       flush(punct, punctuation_tag) >>

mixed_state ==
    << keep(lower \o upper, mixed_tag),
       keep(digit, alphanum_tag),
       flush(white, whitespace_tag),
       flush(punct, punctuation_tag) >>

alphanum_state ==
    << keep(lower \o upper \o digit, alphanum_tag),
       flush(white, whitespace_tag),
       flush(punct, punctuation_tag) >>

\* number + letter gives a mixed-case run
number_state_mixed ==
    << keep(lower \o upper, mixed_tag),
       keep(digit, number_tag),
       flush(white, whitespace_tag),
       flush(punct, punctuation_tag) >>

number_state ==
    << keep(lower \o upper, alphanum_tag),
       keep(digit, number_tag),
       flush(white, whitespace_tag),
       flush(punct, punctuation_tag) >>

BrailleTokeniser ==
    [class |-> "BrailleTokeniser",
     states |->
        add_state(add_state(add_state(add_state(add_state(add_state(add_state(
            no_states,
            punctuation_tag, punctuation_state),
            whitespace_tag, whitespace_state),
            lower_tag, lower_state),
            upper_tag, upper_state),
            mixed_tag, mixed_state),
            alphanum_tag, alphanum_state),
            number_tag, number_state),
     start_state |-> whitespace_tag]

(***************************************************************************)
(* BrailleTranslator.setup                                                 *)
(***************************************************************************)
default == "default"
spaces_per_tab == 2

upper_code == dots2unicode[Str("000 001")]
number_code == dots2unicode[Str("001 111")]

\* "for" is split off like a fragment
fragments_for == << Str("ed"), Str("ing"), Str("for") >>

fragments == << Str("ed"), Str("ing") >>

lower_dots ==
    (Str("a") :> Str("100 000")) @@ (Str("b") :> Str("110 000")) @@
    (Str("c") :> Str("100 100")) @@ (Str("d") :> Str("100 110")) @@
    (Str("e") :> Str("100 010")) @@ (Str("f") :> Str("110 100")) @@
    (Str("g") :> Str("110 110")) @@ (Str("h") :> Str("110 010")) @@
    (Str("i") :> Str("010 100")) @@ (Str("j") :> Str("010 110")) @@
    (Str("k") :> Str("101 000")) @@ (Str("l") :> Str("111 000")) @@
    (Str("m") :> Str("101 100")) @@ (Str("n") :> Str("101 110")) @@
    (Str("o") :> Str("101 010")) @@ (Str("p") :> Str("111 100")) @@
    (Str("q") :> Str("111 110")) @@ (Str("r") :> Str("111 010")) @@
    (Str("s") :> Str("011 100")) @@ (Str("t") :> Str("011 110")) @@
    (Str("u") :> Str("101 001")) @@ (Str("v") :> Str("111 001")) @@
    (Str("w") :> Str("010 111")) @@ (Str("x") :> Str("101 101")) @@
    (Str("y") :> Str("101 111")) @@ (Str("z") :> Str("101 011"))

\* lower = { k: ([], [dots_to_uni[v]], state) for k,v in lower.items() }
lower_tr ==
    [k \in DOMAIN lower_dots |->
        Transition(<<>>, <<lit(dots2unicode[lower_dots[k]])>>, default)]

misc_dots ==
    (Str(" ") :> Str("000 000")) @@ (Str(",") :> Str("010 000")) @@
    (Str(".") :> Str("010 011")) @@
    (Str("for") :> Str("111 111")) @@ (Str("and") :> Str("111 101")) @@
    (Str("the") :> Str("011 101")) @@
    (Str("ed") :> Str("110 101")) @@ (Str("ing") :> Str("001 101"))

\* the dot patterns are emitted as they are, not as code points
misc_tr_dots ==
    [k \in DOMAIN misc_dots |-> Transition(<<>>, <<lit(misc_dots[k])>>, default)]

\* the entries of misc flush the buffer before their code, as the
\* tokeniser's do
misc_tr_flush ==
    [k \in DOMAIN misc_dots |->
        Transition(<<>>, <<end, lit(dots2unicode[misc_dots[k]])>>, default)]

misc_tr ==
    [k \in DOMAIN misc_dots |->
        Transition(<<>>, <<lit(dots2unicode[misc_dots[k]])>>, default)]

\* mutant: one abbreviation misspelt
swap_toks_typo ==
    (Str("tomorrow") :> << <<Str("tm"), lower_tag>> >>) @@
    (Str("friend") :> << <<Str("fr"), lower_tag>> >>) @@
    (Str("little") :> << <<Str("ll"), lower_tag>> >>) @@
    (Str("you") :> << <<Str("y"), lower_tag>> >>) @@
    (Str("like") :> << <<Str("lk"), lower_tag>> >>) @@
    (Str("him") :> << <<Str("hm"), lower_tag>> >>) @@
    (Str("\t") :> [i \in 1..spaces_per_tab |-> <<Str(" "), whitespace_tag>>])

swap_toks ==
    (Str("tomorrow") :> << <<Str("tm"), lower_tag>> >>) @@
    (Str("friend") :> << <<Str("fr"), lower_tag>> >>) @@
    (Str("little") :> << <<Str("ll"), lower_tag>> >>) @@
    (Str("you") :> << <<Str("y"), lower_tag>> >>) @@
    (Str("like") :> << <<Str("l"), lower_tag>> >>) @@
    (Str("him") :> << <<Str("hm"), lower_tag>> >>) @@
    (Str("\t") :> [i \in 1..spaces_per_tab |-> <<Str(" "), whitespace_tag>>])

\* swap = { k: (v, [], state) for k,v in swap.items() }
swap_tr ==
    [k \in DOMAIN swap_toks |-> Transition(swap_toks[k], <<>>, default)]

\* mutant: every uppercase letter gets the indicator twice
upper_tr_double ==
    [K \in {str_upper(k) : k \in DOMAIN lower_tr} |->
        LET k == CHOOSE k \in DOMAIN lower_tr : str_upper(k) = K
        IN Transition(lower_tr[k].in,
                      <<lit(upper_code), lit(upper_code)>> \o lower_tr[k].out,
                      lower_tr[k].state)]

\* upper = { k.upper(): (i,[self.upper_code]+o,s) for k,(i,o,s) in lower.items() }
upper_tr ==
    [K \in {str_upper(k) : k \in DOMAIN lower_tr} |->
        LET k == CHOOSE k \in DOMAIN lower_tr : str_upper(k) = K
        IN Transition(lower_tr[k].in, <<lit(upper_code)>> \o lower_tr[k].out,
                      lower_tr[k].state)]

\* enumerate('0123456789'): the digit 0 shares the cell of a
number_tr_zero_first ==
    LET ks == Str("0123456789")
        ls == Str("abcdefghij")
    IN [k \in {<<ks[i]>> : i \in 1..Len(ks)} |->
           LET i == CHOOSE i \in 1..Len(ks) : ks[i] = k[1]
           IN lower_tr[<<ls[i]>>]]

\* number = { k: lower['abcdefghij'[i]] for (i,k) in enumerate('1234567890') }
number_tr ==
    LET ks == Str("1234567890")
        ls == Str("abcdefghij")
    IN [k \in {<<ks[i]>> : i \in 1..Len(ks)} |->
           LET i == CHOOSE i \in 1..Len(ks) :
                        ks[i] = k[1] /\ \A j \in 1..Len(ks) : ks[j] = k[1] => j <= i
           IN lower_tr[<<ls[i]>>]]

\* mutant: the identities are keyed by dot pattern, not by code point
uni_tr_by_dots ==
    [k \in DOMAIN dots2unicode |-> Transition(<<>>, <<lit(dots2unicode[k])>>, default)]

\* uni = { v: ([], [v], state) for k,v in dots_to_uni.items() }
uni_tr ==
    [v \in {dots2unicode[k] : k \in DOMAIN dots2unicode} |->
        Transition(<<>>, <<lit(v)>>, default)]

BrailleTranslator ==
    [class |-> "BrailleTranslator",
     states |-> add_state(no_states, default,
                    <<lower_tr, upper_tr, number_tr, misc_tr, uni_tr, swap_tr>>),
     start_state |-> default]

(***************************************************************************)
(* BrailleTranslator.transform                                             *)
(***************************************************************************)
\* mutant: only the first fragment of the list is looked for
found_first(txt) == {n \in {1} : str_find(txt, fragments[n]) # -1}

\* the fragments that occur in txt, as indexes of self.fragments
found(txt) == {n \in 1..Len(fragments) : str_find(txt, fragments[n]) # -1}

\* [(t,tag) for t in [pre,x,post] if t != '']
pieces(parts, tag) ==
    LET keep_ix == {n \in 1..Len(parts) : parts[n] # <<>>}
        nth(j) == CHOOSE n \in keep_ix : Cardinality({m \in keep_ix : m <= n}) = j
    IN [j \in 1..Cardinality(keep_ix) |-> <<parts[nth(j)], tag>>]

\* the hook names the start state of the tokeniser as next state
transform_elsewhere(txt, tag, st) ==
    IF tag = number_tag
    THEN << Transition(<< <<number_code, tag>>, <<txt, lower_tag>> >>, <<>>,
                       whitespace_tag) >>
    ELSE IF tag = upper_tag
    THEN << Transition(<< <<upper_code, tag>>, <<upper_code, tag>>,
                          <<str_lower(txt), lower_tag>> >>, <<>>, st) >>
    ELSE << Transition([i \in 1..Len(txt) |-> << <<txt[i]>>, tag >>], <<>>, st) >>

BrailleTranslator_transform(txt, tag, st) ==
    IF tag = number_tag
    THEN << Transition(<< <<number_code, tag>>, <<txt, lower_tag>> >>, <<>>, st) >>
    ELSE IF tag = upper_tag
    THEN << Transition(<< <<upper_code, tag>>, <<upper_code, tag>>,
                          <<str_lower(txt), lower_tag>> >>, <<>>, st) >>
    ELSE IF found(txt) # {}
    THEN LET n == CHOOSE n \in found(txt) : \A m \in found(txt) : n <= m
             x == fragments[n]
             i == str_find(txt, x)
             pre == SubSeq(txt, 1, i)
             post == SubSeq(txt, i + Len(x) + 1, Len(txt))
         IN << Transition(pieces(<<pre, x, post>>, tag), <<>>, st) >>
    ELSE << Transition([j \in 1..Len(txt) |-> << <<txt[j]>>, tag >>], <<>>, st) >>

(***************************************************************************)
(* A machine built by a caller with add_state: two states over the         *)
(* characters x and y, every transition emitting its character and going   *)
(* to the target the caller chose, which may be a state never added.       *)
(***************************************************************************)
client_states == {"s0", "s1"}
client_chars == {Str("x"), Str("y")}
client_targets == client_states \cup {"nowhere"}

client_map(cl, s) == [t \in client_chars |-> Transition(<<>>, <<lit(t)>>, cl[<<s, t>>])]

ClientFSM(cl) ==
    [class |-> "FSM",
     states |-> add_state(add_state(no_states, "s0", <<client_map(cl, "s0")>>),
                          "s1", <<client_map(cl, "s1")>>),
     start_state |-> "s0"]

\* a literal a caller writes in an outputPush list: "txt is self.end" holds
\* for it if its value is the marker's and the interpreter made the two
\* strings one object
caller_lit(t, same) == [is_end |-> (t = end.txt /\ same), txt |-> t]

\* a machine built by a caller: one state, the characters x and | are
\* emitted as they are
echo_chars == {Str("x"), Str("|")}

EchoFSM(same) ==
    [class |-> "FSM",
     states |-> add_state(no_states, "s0",
                    << [t \in echo_chars |->
                          Transition(<<>>, <<caller_lit(t, same)>>, "s0")] >>),
     start_state |-> "s0"]

(***************************************************************************)
(* FSM.process                                                             *)
(***************************************************************************)
\* dispatch of self.transform on the class of the machine
transform(self, txt, tag, st) ==
    IF self.class = "BrailleTranslator"
    THEN BrailleTranslator_transform(txt, tag, st)
    ELSE FSM_transform(txt, tag, st)

\* result = tr[txt] if (txt in tr) else self.transform(txt,tag,state)
lookup(self, txt, tag, st) ==
    LET tr == self.states[st].transitions
    IN IF txt \in DOMAIN tr THEN <<tr[txt]>> ELSE transform(self, txt, tag, st)

\* in_seq = [(t,None) for t in in_toks] if isinstance(in_toks,str) else in_toks
wrap(toks) ==
    IF toks.is_str THEN [i \in 1..Len(toks.val) |-> << <<toks.val[i]>>, NoTag >>]
    ELSE toks.val

text(t) == [is_str |-> TRUE, val |-> t]
token_list(l) == [is_str |-> FALSE, val |-> l]

RECURSIVE emit(_, _, _, _, _)
\* for txt in out_: flush the buffer at the end marker, else append txt
emit(out_, buf, recs, tag, st) ==
    IF out_ = <<>> THEN [out_txt |-> buf, out_seq |-> recs]
    ELSE IF Head(out_).is_end
         THEN emit(Tail(out_), None, recs \o postprocess(buf, tag, st), tag, st)
         ELSE emit(Tail(out_),
                   IF buf = None THEN <<Head(out_).txt>>
                   ELSE <<buf[1] \o Head(out_).txt>>,
                   recs, tag, st)

\* the locals of process() on entry
locals(self, toks) ==
    [in_seq |-> wrap(toks), out_txt |-> None, out_seq |-> <<>>,
     state |-> self.start_state]

\* a miss ends the loop: break where the code has continue
body_break(self, c) ==
    LET in_tok == c.in_seq[1]
        rest == Tail(c.in_seq)
        result == lookup(self, in_tok[1], in_tok[2], c.state)
    IN IF result = None
       THEN [c EXCEPT !.in_seq = <<>>]
       ELSE LET e == emit(result[1].out, c.out_txt, c.out_seq, in_tok[2], c.state)
            IN [in_seq |-> result[1].in \o rest, out_txt |-> e.out_txt,
                out_seq |-> e.out_seq, state |-> result[1].state]

\* the inputPush tokens go to the back of the queue
body_append(self, c) ==
    LET in_tok == c.in_seq[1]
        rest == Tail(c.in_seq)
        result == lookup(self, in_tok[1], in_tok[2], c.state)
    IN IF result = None
       THEN [c EXCEPT !.in_seq = rest]
       ELSE LET e == emit(result[1].out, c.out_txt, c.out_seq, in_tok[2], c.state)
            IN [in_seq |-> rest \o result[1].in, out_txt |-> e.out_txt,
                out_seq |-> e.out_seq, state |-> result[1].state]

\* one pass of the while loop whose token is handled (state is defined)
body(self, c) ==
    LET in_tok == c.in_seq[1]
        rest == Tail(c.in_seq)
        result == lookup(self, in_tok[1], in_tok[2], c.state)
    IN IF result = None
       THEN [c EXCEPT !.in_seq = rest]
       ELSE LET e == emit(result[1].out, c.out_txt, c.out_seq, in_tok[2], c.state)
            IN [in_seq |-> result[1].in \o rest, out_txt |-> e.out_txt,
                out_seq |-> e.out_seq, state |-> result[1].state]

\* if out_txt != None: out_seq.append( (out_txt,state) ); return out_seq
trailing(c) ==
    IF c.out_txt # None THEN Append(c.out_seq, <<c.out_txt[1], c.state>>)
    ELSE c.out_seq

MaxIter == 48

RECURSIVE run(_, _, _)
\* the loop from the locals c, cut after n passes: what process() returns
run(self, c, n) ==
    IF c.in_seq = <<>> THEN [ret |-> "list", out_seq |-> trailing(c)]
    ELSE IF c.state \notin DOMAIN self.states THEN [ret |-> "None", out_seq |-> <<>>]
    ELSE IF n = 0 THEN [ret |-> "looping", out_seq |-> <<>>]
    ELSE run(self, body(self, c), n - 1)

process(self, toks) == run(self, locals(self, toks), MaxIter)

\* braille.py 49-52: tokenise, translate, text of the first record
translate(input_txt) ==
    LET toks == process(BrailleTokeniser, text(input_txt))
        recs == process(BrailleTranslator, token_list(toks.out_seq))
    IN IF recs.ret = "list" /\ recs.out_seq # <<>>
       THEN [ret |-> "str", txt |-> recs.out_seq[1][1]]
       ELSE [ret |-> IF recs.ret = "list" THEN "IndexError" ELSE recs.ret,
             txt |-> <<>>]

(***************************************************************************)
(* Inputs.                                                                 *)
(***************************************************************************)
MaxLen == 3
MaxWord == 3

Texts(A, n) == UNION {[1..k -> A] : k \in 0..n}

\* the 64 Braille code points, each as a one-character text
cells == {dots2unicode[k] : k \in DOMAIN dots2unicode}

\* characters of every tokeniser class, one no class holds, one Braille cell
Alphabet == Chars(Str("eK1 ,;!")) \cup Chars(upper_code)

WordLetters == Chars(Str("eding"))

dictionary ==
    {k \in DOMAIN misc_dots \cup DOMAIN swap_toks : Chars(k) \subseteq Chars(lower)}
    \cup {swap_toks[k][1][1] : k \in DOMAIN swap_toks \ {Str("\t")}}
    \cup {Str("ok"), Str("band"), Str("there"), Str("forth")}

Words == Texts(WordLetters, MaxWord) \cup dictionary

samples ==
    {Str("Hi there."), Str("a1"), Str("1a"), Str("10"), Str("Ok"), Str("x|y"),
     Str("\t\t"), Str("a\tb"), Str("e.d:")}

\* runs of digits: every pair of digits, and longer runs of three of them
Numerals ==
    {<<a, b>> : a \in Chars(digit), b \in Chars(digit)}
    \cup Texts(Chars(Str("109")), MaxLen)

\* the whole-word contractions
contractions == {Str("for"), Str("and"), Str("the")}

\* the contractions alone and next to fragments
Contracted ==
    LET fs == Chars(fragments) \cup {<<>>}
    IN {f \o w \o g : f \in fs, w \in contractions, g \in fs}

CoreTexts ==
    Texts(Alphabet, MaxLen)
    \cup Numerals
    \cup Contracted
    \cup {str_upper(w) : w \in Contracted}
    \cup {w \o <<c>> : w \in Contracted \ contractions, c \in Chars(Str("K1"))}
    \cup Words
    \cup {str_upper(w) : w \in Words}
    \cup {p \o fragments[n] : p \in Words \ {<<>>}, n \in 1..Len(fragments)}
    \cup {<<c>> : c \in Chars(lower \o upper \o digit \o white \o punct)}
    \cup cells
    \cup samples

CellTexts == cells \cup Texts(Chars(upper_code \o number_code \o Str("a")), MaxLen)

ClientTexts == Texts({t[1] : t \in client_chars}, MaxLen)

MaxToks == 2

\* tokens a caller may pass to process(): table entries, texts the hook
\* decomposes under each tag, a Braille cell, a text with no table entry
TokenPool ==
    { <<Str("e"), lower_tag>>, <<Str("K"), upper_tag>>, <<Str("KE"), upper_tag>>,
      <<Str("1"), number_tag>>, <<Str("12"), number_tag>>,
      <<Str("you"), lower_tag>>, <<Str("sing"), lower_tag>>,
      <<Str("aB"), mixed_tag>>, <<Str("ab"), NoTag>>,
      <<Str("\t"), whitespace_tag>>, <<number_code, NoTag>>,
      <<Str(";"), punctuation_tag>> }

TokenLists == UNION {[1..k -> TokenPool] : k \in 0..MaxToks}

EchoTexts == Texts({t[1] : t \in echo_chars}, MaxLen)

no_client == [k \in client_states \X client_chars |-> "s0"]

(***************************************************************************)
(* The run: process() of the machine in turn, and the driver around it.    *)
(***************************************************************************)
self ==
    IF fsm = "BrailleTokeniser" THEN BrailleTokeniser
    ELSE IF fsm = "BrailleTranslator" THEN BrailleTranslator
    ELSE IF fsm = "EchoFSM" THEN EchoFSM(same_object)
    ELSE ClientFSM(client)

cur == [in_seq |-> in_seq, out_txt |-> out_txt, out_seq |-> out_seq, state |-> state]

enter(machine, toks) ==
    LET c == locals(machine, toks)
    IN /\ in_seq' = c.in_seq
       /\ out_txt' = c.out_txt
       /\ out_seq' = c.out_seq
       /\ state' = c.state

Init ==
    /\ \/ /\ entry = "core"
          /\ in_toks \in {text(t) : t \in CoreTexts}
          /\ client = no_client
          /\ same_object = FALSE
          /\ fsm = "BrailleTokeniser"
       \/ /\ entry = "translator"
          /\ in_toks \in {text(t) : t \in CellTexts}
          /\ client = no_client
          /\ same_object = FALSE
          /\ fsm = "BrailleTranslator"
       \/ /\ entry = "fsm"
          /\ in_toks \in {text(t) : t \in ClientTexts}
          /\ client \in [client_states \X client_chars -> client_targets]
          /\ same_object = FALSE
          /\ fsm = "FSM"
       \/ /\ entry = "tokens"
          /\ in_toks \in {token_list(l) : l \in TokenLists}
          /\ client = no_client
          /\ same_object = FALSE
          /\ fsm \in {"BrailleTokeniser", "BrailleTranslator"}
       \/ /\ entry = "echo"
          /\ in_toks \in {text(t) : t \in EchoTexts}
          /\ client = no_client
          /\ same_object \in BOOLEAN
          /\ fsm = "EchoFSM"
    /\ in_seq = wrap(in_toks)
    /\ out_txt = None
    /\ out_seq = <<>>
    /\ state = self.start_state
    /\ tokens = <<>>
    /\ unicode_dots = <<>>
    /\ line = <<>>
    /\ pc = "loop"

\* fsm 110-113: the current state is not in the state table
Undefined ==
    /\ pc = "loop"
    /\ in_seq # <<>>
    /\ state \notin DOMAIN self.states
    /\ pc' = "None"
    /\ UNCHANGED <<entry, in_toks, client, same_object, fsm,
                   in_seq, out_txt, out_seq, state, tokens, unicode_dots, line>>

\* fsm 116-126: no transition and no transform: the token is ignored
Ignore ==
    /\ pc = "loop"
    /\ in_seq # <<>>
    /\ state \in DOMAIN self.states
    /\ lookup(self, in_seq[1][1], in_seq[1][2], state) = None
    /\ in_seq' = body(self, cur).in_seq
    /\ UNCHANGED <<entry, in_toks, client, same_object, fsm,
                   out_txt, out_seq, state, tokens, unicode_dots, line, pc>>

\* fsm 116-151: the transition is applied
Apply ==
    /\ pc = "loop"
    /\ in_seq # <<>>
    /\ state \in DOMAIN self.states
    /\ lookup(self, in_seq[1][1], in_seq[1][2], state) # None
    /\ LET c == body(self, cur)
       IN /\ in_seq' = c.in_seq
          /\ out_txt' = c.out_txt
          /\ out_seq' = c.out_seq
          /\ state' = c.state
    /\ UNCHANGED <<entry, in_toks, client, same_object, fsm, tokens,
                   unicode_dots, line, pc>>

\* fsm 153-156: the queue is empty
Return ==
    /\ pc = "loop"
    /\ in_seq = <<>>
    /\ out_seq' = trailing(cur)
    /\ pc' = "returned"
    /\ UNCHANGED <<entry, in_toks, client, same_object, fsm,
                   in_seq, out_txt, state, tokens, unicode_dots, line>>

\* braille.py 50-51: the tokeniser's records go to the translator
Translate ==
    /\ pc = "returned"
    /\ entry = "core"
    /\ fsm = "BrailleTokeniser"
    /\ tokens' = out_seq
    /\ fsm' = "BrailleTranslator"
    /\ enter(BrailleTranslator, token_list(out_seq))
    /\ pc' = "loop"
    /\ UNCHANGED <<entry, in_toks, client, same_object, unicode_dots, line>>

\* braille.py 52: unicode_dots[0][0]
Index ==
    /\ pc = "returned"
    /\ entry = "core"
    /\ fsm = "BrailleTranslator"
    /\ IF out_seq = <<>>
       THEN pc' = "IndexError" /\ UNCHANGED unicode_dots
       ELSE pc' = "done" /\ unicode_dots' = out_seq[1][1]
    /\ UNCHANGED <<entry, in_toks, client, same_object, fsm,
                   in_seq, out_txt, out_seq, state, tokens, line>>

\* braille.py 82-83: d2u, u2d = get_conversion_maps();
\* line = [u2d[x] for x in unicode_dots]
Line ==
    /\ pc = "done"
    /\ IF \A i \in 1..Len(unicode_dots) : <<unicode_dots[i]>> \in DOMAIN unicode2dots
       THEN /\ line' = [i \in 1..Len(unicode_dots) |-> unicode2dots[<<unicode_dots[i]>>]]
            /\ pc' = "line"
       ELSE pc' = "KeyError" /\ UNCHANGED line
    /\ UNCHANGED <<entry, in_toks, client, same_object, fsm,
                   in_seq, out_txt, out_seq, state, tokens, unicode_dots>>

Next == Undefined \/ Ignore \/ Apply \/ Return \/ Translate \/ Index \/ Line

Spec == Init /\ [][Next]_vars

(***************************************************************************)
(* Properties.                                                             *)
(***************************************************************************)
input_txt == in_toks.val

core_done == entry = "core" /\ pc = "done"

\* the core entry has ended: with a string, with the IndexError of line 52,
\* or with process() returning None
core_ended == entry = "core" /\ pc \in {"done", "IndexError", "None"}

\* the translator table
table == BrailleTranslator.states[default].transitions

lowers == Chars(lower)
uppers == Chars(upper)
recognised == Chars(lower \o upper \o digit \o white \o punct)
cell_chars == {v[1] : v \in cells}

RECURSIVE concat(_)
\* the texts of a list of records, joined in order
concat(recs) == IF recs = <<>> THEN <<>> ELSE recs[1][1] \o concat(Tail(recs))

\* C1: termination of the core entry.  Every pass of the translator's loop on
\* the tokeniser's runs changes the loop's locals (a pass that leaves the
\* queue, the buffer and the state as they were repeats for ever), and no
\* call of BrailleTranslator.transform returns as inputPush just the
\* (text, tag) pair it was given.
C1_Termination ==
    (entry = "core" /\ fsm = "BrailleTranslator" /\ pc = "loop" /\ in_seq # <<>>)
    => /\ body(self, cur) # cur
       /\ in_seq[1][1] \notin DOMAIN table
          => BrailleTranslator_transform(in_seq[1][1], in_seq[1][2], state)[1].in
                # <<in_seq[1]>>

\* C2: fatal-state detection.  process() returns an output list only when the
\* state it ends in is a key of the state table: a transition to a state that
\* was never added makes the run return None, wherever in the input it fires.
C2_FatalStateSignalled ==
    pc = "returned" => state \in DOMAIN self.states

\* C3: numeral sharing.  The digit at position i of "1234567890" translates to
\* the number indicator followed by the translation of letter i of
\* "abcdefghij".
C3_NumeralSharing ==
    (core_ended /\ Len(input_txt) = 1)
    => \A i \in 1..10 :
          input_txt = <<Str("1234567890")[i]>>
          => /\ pc = "done"
             /\ unicode_dots = number_code \o translate(<<Str("abcdefghij")[i]>>).txt

\* C4: case rule.  For every lowercase letter L the one-character text
\* upper(L) translates to one upper-case indicator followed by the
\* translation of L.
C4_CaseRule ==
    (core_ended /\ Len(input_txt) = 1)
    => \A L \in lowers :
          input_txt = <<L - 32>>
          => /\ pc = "done"
             /\ translate(<<L>>).ret = "str"
             /\ unicode_dots = upper_code \o translate(<<L>>).txt

C4_Witness ==
    /\ core_done
    /\ input_txt = Str("E")
    /\ unicode_dots = upper_code \o dots2unicode[Str("100 010")]

\* C5: whole-run capitalisation.  A run W of two or more uppercase letters
\* translates to two upper-case indicators followed by the translation of W
\* in lowercase, and the indicator occurs nowhere else in the output.
C5_WholeRunCapitals ==
    (core_ended /\ Len(input_txt) >= 2 /\ Chars(input_txt) \subseteq uppers)
    => LET w == [i \in 1..Len(input_txt) |-> input_txt[i] + 32]
       IN /\ pc = "done"
          /\ translate(w).ret = "str"
          /\ unicode_dots = upper_code \o upper_code \o translate(w).txt
          /\ \A i \in 3..Len(unicode_dots) : unicode_dots[i] # upper_code[1]

C5_Witness ==
    /\ core_done
    /\ input_txt = Str("ED")
    /\ unicode_dots = upper_code \o upper_code \o dots2unicode[Str("110 101")]

\* the abbreviations of C6, as the claim lists them
abbreviations ==
    { <<Str("tomorrow"), Str("tm")>>, <<Str("friend"), Str("fr")>>,
      <<Str("little"), Str("ll")>>, <<Str("you"), Str("y")>>,
      <<Str("like"), Str("l")>>, <<Str("him"), Str("hm")>> }

\* C6: abbreviation equivalence.  Each word of the fixed set translates, as a
\* lowercase run, to what its abbreviation translates to; its table entry
\* emits nothing and re-queues the abbreviation as one lowercase-tagged token.
C6_AbbreviationEquivalence ==
    (core_ended /\ Len(input_txt) >= 3)
    => \A p \in abbreviations :
          input_txt = p[1]
          => /\ p[1] \in DOMAIN table
             /\ table[p[1]].out = <<>>
             /\ table[p[1]].in = << <<p[2], lower_tag>> >>
             /\ pc = "done"
             /\ translate(p[2]).ret = "str"
             /\ unicode_dots = translate(p[2]).txt

C6_Witness ==
    /\ core_done
    /\ input_txt = Str("tomorrow")
    /\ unicode_dots = dots2unicode[Str("011 110")] \o dots2unicode[Str("101 100")]

\* C7: fragment split.  A lowercase run p+f, f one of the fragments "ed" and
\* "ing" and p not empty, translates to the translation of p followed by the
\* one code of f.
C7_FragmentSplit ==
    (core_ended /\ Chars(input_txt) \subseteq lowers)
    => \A f \in {Str("ed"), Str("ing")} :
          LET n == Len(input_txt) - Len(f)
          IN (n >= 1 /\ SubSeq(input_txt, n + 1, Len(input_txt)) = f)
             => LET p == SubSeq(input_txt, 1, n)
                IN /\ pc = "done"
                   /\ translate(p).ret = "str"
                   /\ unicode_dots = translate(p).txt \o dots2unicode[misc_dots[f]]

C7_Witness ==
    /\ core_done
    /\ input_txt = Str("ending")
    /\ unicode_dots = dots2unicode[Str("100 010")] \o dots2unicode[Str("101 110")]
                      \o dots2unicode[Str("100 110")] \o dots2unicode[Str("001 101")]

\* C8: identity pass-through.  BrailleTranslator.process of a non-empty string
\* of Braille code points returns one record whose text is the string: every
\* code point popped has a literal transition that emits itself, so the
\* buffer followed by the pending input stays the string.
C8_IdentityPassThrough ==
    (/\ entry = "translator"
     /\ input_txt # <<>>
     /\ Chars(input_txt) \subseteq cell_chars)
    => /\ pc \in {"loop", "returned"}
       /\ pc = "returned" => out_seq = << <<input_txt, default>> >>
       /\ pc = "loop"
          => /\ out_seq = <<>>
             /\ (IF out_txt = None THEN <<>> ELSE out_txt[1]) \o concat(in_seq)
                   = input_txt
             /\ in_seq # <<>>
                => /\ in_seq[1][1] \in DOMAIN table
                   /\ table[in_seq[1][1]]
                         = Transition(<<>>, <<lit(in_seq[1][1])>>, default)

C8_Witness ==
    /\ entry = "translator"
    /\ pc = "returned"
    /\ input_txt = upper_code \o number_code \o upper_code
    /\ out_seq = << <<input_txt, default>> >>

\* C9: a Braille code point in the input text of the core entry is in the
\* output, between the translation of the text before it and the translation
\* of the text after it.
C9_EmbeddedBrailleSurvives ==
    core_ended
    => \A i \in 1..Len(input_txt) :
          input_txt[i] \in cell_chars
          => unicode_dots = translate(SubSeq(input_txt, 1, i - 1)).txt
                            \o <<input_txt[i]>>
                            \o translate(SubSeq(input_txt, i + 1, Len(input_txt))).txt

\* C10: tokeniser coverage.  For an input over the recognised classes the
\* texts of the records BrailleTokeniser.process returns, joined in order,
\* are the input, and no record is empty; "Hi there." gives "Hi" mixed,
\* " " whitespace, "there" lower, "." punctuation.
C10_TokeniserCoverage ==
    (/\ entry = "core"
     /\ fsm = "BrailleTokeniser"
     /\ pc \in {"returned", "None"}
     /\ Chars(input_txt) \subseteq recognised)
    => /\ pc = "returned"
       /\ concat(out_seq) = input_txt
       /\ \A i \in 1..Len(out_seq) : out_seq[i][1] # <<>>
       /\ input_txt = Str("Hi there.")
          => out_seq = << <<Str("Hi"), "mixed_str">>, <<Str(" "), "whitespace">>,
                          <<Str("there"), "lower_str">>,
                          <<Str("."), "punctuation">> >>

C10_Witness ==
    /\ entry = "core"
    /\ fsm = "BrailleTokeniser"
    /\ pc = "returned"
    /\ input_txt = Str("Hi there.")
    /\ Len(out_seq) = 4

\* the core entry is in the tokeniser's loop with a token to pop
tokenising ==
    /\ entry = "core"
    /\ fsm = "BrailleTokeniser"
    /\ pc = "loop"
    /\ in_seq # <<>>

\* the characters of the semantic class a tokeniser state stands for
class_chars(tag) ==
    IF tag = whitespace_tag THEN Chars(white)
    ELSE IF tag = punctuation_tag THEN Chars(punct)
    ELSE IF tag = lower_tag THEN Chars(lower)
    ELSE IF tag = upper_tag THEN Chars(upper)
    ELSE IF tag = number_tag THEN Chars(digit)
    ELSE IF tag = mixed_tag THEN Chars(lower) \cup Chars(upper)
    ELSE Chars(lower) \cup Chars(upper) \cup Chars(digit)

\* C11: same-class continuation.  In every tokeniser state, whitespace
\* included, a character of the class of the run in progress is appended
\* without a flush marker, and no two adjacent records the tokeniser returns
\* carry the same tag.
C11_SameClassContinues ==
    /\ (/\ tokenising
        /\ out_txt # None
        /\ in_seq[1][1][1] \in class_chars(state))
       => LET result == lookup(BrailleTokeniser, in_seq[1][1], in_seq[1][2], state)
          IN /\ result # None
             /\ \A i \in 1..Len(result[1].out) : ~result[1].out[i].is_end
             /\ result[1].state = state
    /\ (entry = "core" /\ fsm = "BrailleTokeniser" /\ pc = "returned")
       => \A i \in 1..(Len(out_seq) - 1) : out_seq[i][2] # out_seq[i + 1][2]

\* the five states whose runs merge
merging == {lower_tag, upper_tag, mixed_tag, alphanum_tag, number_tag}

\* the tag two merged classes coarsen to, as the claim C12 lists them
coarsened(tag, c) ==
    IF c \in Chars(digit)
    THEN (IF tag = number_tag THEN number_tag ELSE alphanum_tag)
    ELSE IF tag \in {number_tag, alphanum_tag} THEN alphanum_tag
    ELSE IF tag = mixed_tag THEN mixed_tag
    ELSE IF (tag = lower_tag) = (c \in Chars(lower)) THEN tag
    ELSE mixed_tag

\* C12: merge rule.  A tokeniser step between two of the states lower,
\* upper, mixed, alphanumeric and number emits no flush marker: it appends
\* the character to the buffer, adds no record, and moves to the coarsened
\* tag (lower+upper and upper+lower give mixed, a letter state + digit gives
\* alphanumeric, number + letter gives alphanumeric); a mixed run never goes
\* back to lower or upper, an alphanumeric run never leaves alphanumeric.
C12_MergeRule ==
    [][(/\ tokenising
        /\ state \in merging
        /\ in_seq[1][1][1] \in class_chars(alphanum_tag))
       => /\ state' = coarsened(state, in_seq[1][1][1])
          /\ out_seq' = out_seq
          /\ out_txt' = <<out_txt[1] \o in_seq[1][1]>>
          /\ in_seq' = Tail(in_seq)
          /\ state = mixed_tag => state' \notin {lower_tag, upper_tag}
          /\ state = alphanum_tag => state' = alphanum_tag]_vars

C12_Witness ==
    /\ entry = "core"
    /\ fsm = "BrailleTokeniser"
    /\ input_txt = Str("eK1")
    /\ in_seq = <<>>
    /\ out_txt = <<Str("eK1")>>
    /\ out_seq = <<>>
    /\ state = alphanum_tag

\* the two states a run is cut at
cutting == {whitespace_tag, punctuation_tag}

\* C13: flush rule.  A tokeniser step that enters whitespace or punctuation
\* from another state, or leaves one of them for another state, has the
\* flush marker before the new character: the run in the buffer, if there is
\* one, becomes a record tagged with the state being left and the buffer
\* restarts at the new character; when the input is used up the last run
\* becomes a record tagged with the final state.
C13_FlushRule ==
    [][/\ (/\ tokenising
           /\ state' # state
           /\ state \in cutting \/ state' \in cutting)
          => LET result == lookup(BrailleTokeniser, in_seq[1][1], in_seq[1][2], state)
             IN /\ result[1].out = <<end, lit(in_seq[1][1])>>
                /\ out_seq' = IF out_txt = None THEN out_seq
                              ELSE Append(out_seq, <<out_txt[1], state>>)
                /\ out_txt' = <<in_seq[1][1]>>
       /\ (/\ entry = "core"
           /\ fsm = "BrailleTokeniser"
           /\ pc = "loop"
           /\ pc' = "returned"
           /\ out_txt # None)
          => out_seq' = Append(out_seq, <<out_txt[1], state>>)]_vars

C13_Witness ==
    /\ entry = "core"
    /\ fsm = "BrailleTokeniser"
    /\ pc = "returned"
    /\ input_txt = Str("e ,")
    /\ out_seq = << <<Str("e"), lower_tag>>, <<Str(" "), whitespace_tag>>,
                    <<Str(","), punctuation_tag>> >>

\* C14: recoverable miss.  When the table of the current state has no entry
\* for the popped token's text and the transform hook returns none, as it
\* does in the tokeniser for every character outside its classes, the pass
\* drops that one token, leaves state, buffer and output queue as they were
\* and the run goes on with the rest of the queue.
C14_RecoverableMiss ==
    [][/\ (/\ pc = "loop"
           /\ in_seq # <<>>
           /\ state \in DOMAIN self.states
           /\ in_seq[1][1] \notin DOMAIN self.states[state].transitions
           /\ transform(self, in_seq[1][1], in_seq[1][2], state) = None)
          => /\ in_seq' = Tail(in_seq)
             /\ state' = state
             /\ out_txt' = out_txt
             /\ out_seq' = out_seq
             /\ pc' = "loop"
       /\ (tokenising /\ in_seq[1][1][1] \notin recognised)
          => /\ in_seq[1][1] \notin DOMAIN self.states[state].transitions
             /\ transform(self, in_seq[1][1], in_seq[1][2], state) = None]_vars

C14_Witness ==
    /\ entry = "core"
    /\ fsm = "BrailleTokeniser"
    /\ pc = "loop"
    /\ input_txt = Str("e!K")
    /\ in_seq = << <<Str("K"), NoTag>> >>
    /\ out_txt = <<Str("e")>>
    /\ out_seq = <<>>
    /\ state = lower_tag

\* C15: translator skip of unmatched tokens.  A one-character token of the
\* core entry that has no entry in the translator's table cannot be
\* decomposed further by the hook: the pass of the loop that pops it drops
\* it and leaves the rest of the queue, the buffer, the output queue and the
\* state, so the tokens behind it are translated.
C15_UnmatchedSkipped ==
    (/\ entry = "core"
     /\ fsm = "BrailleTranslator"
     /\ pc = "loop"
     /\ in_seq # <<>>
     /\ Len(in_seq[1][1]) = 1
     /\ in_seq[1][1] \notin DOMAIN table)
    => body(BrailleTranslator, cur) = [cur EXCEPT !.in_seq = Tail(in_seq)]

\* C16: core entry totality.  The core entry never ends with an exception or
\* with the failure value: for every input text, the empty text and a text
\* of unrecognised characters included, it ends with a string of Braille
\* code points.
C16_CoreEntryTotal ==
    entry = "core"
    => /\ pc \notin {"IndexError", "None", "KeyError"}
       /\ pc = "done" => Chars(unicode_dots) \subseteq cell_chars

\* the dots d1..d6 of a cell, each 0 or 1
dots == [1..6 -> {0, 1}]

\* the pattern string "d1d2d3 d4d5d6"
pattern(d) ==
    <<ord("0") + d[1], ord("0") + d[2], ord("0") + d[3], ord(" "),
      ord("0") + d[4], ord("0") + d[5], ord("0") + d[6]>>

\* 0x2800 + sum of d_k * 2^(k-1)
code_point(d) ==
    10240 + d[1] + 2 * d[2] + 4 * d[3] + 8 * d[4] + 16 * d[5] + 32 * d[6]

\* the two maps are defined on the 64 patterns and the 64 code points, agree
\* with the dot weights and invert each other
bijection ==
    /\ DOMAIN dots2unicode = {pattern(d) : d \in dots}
    /\ DOMAIN unicode2dots = {<<c>> : c \in 10240..10303}
    /\ Cardinality(DOMAIN dots2unicode) = 64
    /\ \A d \in dots :
          /\ dots2unicode[pattern(d)] = <<code_point(d)>>
          /\ unicode2dots[<<code_point(d)>>] = pattern(d)
    /\ \A p \in DOMAIN dots2unicode : unicode2dots[dots2unicode[p]] = p
    /\ \A c \in DOMAIN unicode2dots : dots2unicode[unicode2dots[c]] = c

\* C17: mapping service.  The two maps of get_conversion_maps are defined on
\* the 64 pattern strings and on the 64 code points U+2800..U+283F, the
\* pattern d1..d6 maps to the code point 0x2800 + sum of d_k * 2^(k-1) and
\* that code point maps back to the pattern; the dot patterns the driver
\* looks up for a translation map back to its characters.
C17_MappingService ==
    /\ bijection
    /\ pc = "line"
       => /\ Len(line) = Len(unicode_dots)
          /\ \A i \in 1..Len(line) : dots2unicode[line[i]] = <<unicode_dots[i]>>

C17_Witness ==
    /\ pc = "line"
    /\ input_txt = Str("ED")
    /\ unicode_dots = <<10240 + 32, 10240 + 32, 10240 + 1 + 2 + 8 + 32>>
    /\ line = <<Str("000 001"), Str("000 001"), Str("110 101")>>

RECURSIVE each_alone(_)
\* the texts the translator returns for the tokens of a list, each translated
\* on its own, joined in the order of the list
each_alone(toks) ==
    IF toks = <<>> THEN <<>>
    ELSE concat(process(BrailleTranslator, token_list(<<Head(toks)>>)).out_seq)
         \o each_alone(Tail(toks))

\* C18: depth-first re-queueing.  A pass that applies a transition leaves the
\* queue as the transition's inputPush tokens, in their order, followed by
\* the tokens that were queued behind the popped one; so what the translator
\* returns for the tokeniser's runs is, run by run in input order, what it
\* emits for that run and the tokens derived from it.
C18_DepthFirst ==
    [][/\ (/\ pc = "loop"
           /\ in_seq # <<>>
           /\ state \in DOMAIN self.states
           /\ lookup(self, in_seq[1][1], in_seq[1][2], state) # None)
          => in_seq' = lookup(self, in_seq[1][1], in_seq[1][2], state)[1].in
                       \o Tail(in_seq)
       /\ (/\ entry = "core"
           /\ fsm = "BrailleTranslator"
           /\ pc = "loop"
           /\ pc' = "returned")
          => concat(out_seq') = each_alone(tokens)]_vars

C18_Witness ==
    /\ entry = "core"
    /\ fsm = "BrailleTranslator"
    /\ pc = "loop"
    /\ input_txt = Str("KK ")
    /\ in_seq = << <<upper_code, upper_tag>>, <<upper_code, upper_tag>>,
                   <<Str("kk"), lower_tag>>, <<Str(" "), whitespace_tag>> >>
    /\ out_txt = None

digits == Chars(digit)

\* the code of the letter of a-j that shares the cell of a digit of 1-9, 0
shared_cell(c) ==
    LET i == CHOOSE i \in 1..10 : Str("1234567890")[i] = c
    IN dots2unicode[lower_dots[<<Str("abcdefghij")[i]>>]]

\* C19: numeric runs.  A run of two or more digits translates to one number
\* indicator followed by, for each digit in order, the code of the letter of
\* a-j that shares its cell, with no further indicator; the numeric branch
\* of the hook is entered once, for the run as the tokeniser returned it.
C19_NumericRuns ==
    (/\ entry = "core"
     /\ fsm = "BrailleTranslator"
     /\ Len(input_txt) >= 2
     /\ Chars(input_txt) \subseteq digits)
    => /\ pc \in {"loop", "returned", "done", "line"}
       /\ (/\ pc = "loop"
           /\ in_seq # <<>>
           /\ in_seq[1][2] = number_tag
           /\ in_seq[1][1] \notin DOMAIN table)
          => /\ in_seq = << <<input_txt, number_tag>> >>
             /\ out_txt = None
             /\ process(BrailleTranslator, token_list(in_seq)).ret = "list"
       /\ pc = "done"
          => /\ Len(unicode_dots) = Len(input_txt) + 1
             /\ <<unicode_dots[1]>> = number_code
             /\ \A i \in 1..Len(input_txt) :
                   /\ <<unicode_dots[i + 1]>> = shared_cell(input_txt[i])
                   /\ <<unicode_dots[i + 1]>> # number_code

C19_Witness ==
    /\ core_done
    /\ input_txt = Str("10")
    /\ unicode_dots = number_code \o dots2unicode[Str("100 000")]
                      \o dots2unicode[Str("010 110")]

\* the cell of a contraction
contraction_code(w) == dots2unicode[misc_dots[w]][1]

\* C20 as stated: the code of "for", "and" or "the" is in the translation only
\* if a run of the tokeniser is exactly that word (in lowercase or in
\* capitals).
C20_WholeWordOnly ==
    core_done
    => \A w \in contractions :
          contraction_code(w) \in Chars(unicode_dots)
          => \E k \in 1..Len(tokens) : tokens[k][1] \in {w, str_upper(w)}

\* t begins with "ed" or "ing", or is empty
fragment_first(t) ==
    \/ t = <<>>
    \/ \E f \in {Str("ed"), Str("ing")} : Len(t) >= Len(f) /\ SubSeq(t, 1, Len(f)) = f

\* t ends with "ed" or "ing", or is empty
fragment_last(t) ==
    \/ t = <<>>
    \/ \E f \in {Str("ed"), Str("ing")} :
          Len(t) >= Len(f) /\ SubSeq(t, Len(t) - Len(f) + 1, Len(t)) = f

\* w occurs in t between the ends of t or the fragments "ed" and "ing"
delimited(w, t) ==
    \E i \in 1..(Len(t) - Len(w) + 1) :
        /\ SubSeq(t, i, i + Len(w) - 1) = w
        /\ fragment_last(SubSeq(t, 1, i - 1))
        /\ fragment_first(SubSeq(t, i + Len(w), Len(t)))

\* C20, amended: the code of "for", "and" or "the" is in the translation
\* exactly when a run holds the word, as it is spelt in the table, between
\* its ends or the fragments "ed" and "ing": "for", "fored", "edfor", also as
\* part of a mixed or alphanumeric run ("foredK", "fored1"); a run of
\* capitals is compared in lowercase ("FOR", "FORED").  A run that holds the
\* word otherwise ("forth", "For") is translated without the contraction
\* code.
C20_ContractionBetweenFragments ==
    core_done
    => \A w \in contractions :
          contraction_code(w) \in Chars(unicode_dots)
          <=> \E k \in 1..Len(tokens) :
                 delimited(w, IF tokens[k][2] = upper_tag
                              THEN str_lower(tokens[k][1])
                              ELSE tokens[k][1])

C20_Witness ==
    /\ core_done
    /\ input_txt = Str("fored")
    /\ tokens = << <<Str("fored"), lower_tag>> >>
    /\ unicode_dots = dots2unicode[Str("111 111")] \o dots2unicode[Str("110 101")]

\* C21: flush marker by identity.  A literal of an outputPush list whose
\* text has the value of the marker, '|', is appended to the buffer like any
\* other text and ends no record: the machine that emits every character it
\* reads returns its input as one record.
C21_MarkerByIdentity ==
    entry = "echo"
    => /\ pc = "loop" => out_seq = <<>>
       /\ pc = "returned"
          => out_seq = IF input_txt = <<>> THEN <<>>
                       ELSE << <<input_txt, "s0">> >>

\* the two concrete machines
concrete == {BrailleTokeniser, BrailleTranslator}

\* every transition of every table of the two machines goes to a state of
\* the table, and so does the start state
tables_closed ==
    \A M \in concrete :
        /\ M.start_state \in DOMAIN M.states
        /\ \A s \in DOMAIN M.states :
              \A k \in DOMAIN M.states[s].transitions :
                  M.states[s].transitions[k].state \in DOMAIN M.states

\* C22: state closure.  In BrailleTokeniser and BrailleTranslator every
\* table transition and every hook result goes to a state of the state
\* table: whatever the input, text or token list, the current state is
\* defined at every step and process() does not return None.
C22_StateClosure ==
    /\ tables_closed
    /\ fsm \in {"BrailleTokeniser", "BrailleTranslator"}
       => /\ state \in DOMAIN self.states
          /\ pc # "None"
          /\ (pc = "loop" /\ in_seq # <<>>)
             => LET result == lookup(self, in_seq[1][1], in_seq[1][2], state)
                IN result # None => result[1].state \in DOMAIN self.states

C22_Witness ==
    /\ entry = "tokens"
    /\ fsm = "BrailleTranslator"
    /\ pc = "returned"
    /\ input_txt = << <<Str("12"), number_tag>>, <<Str("KE"), upper_tag>> >>
    /\ state = default
    /\ Len(out_seq) = 1

\* every literal of every outputPush list of the translator table is a text
\* of Braille code points
table_emits_cells ==
    \A k \in DOMAIN table :
        \A i \in 1..Len(table[k].out) :
            /\ ~table[k].out[i].is_end
            /\ Chars(table[k].out[i].txt) \subseteq cell_chars

\* C23: output alphabet.  At every step of BrailleTranslator.process the
\* text buffer and the records hold only characters of the 64 Braille code
\* points, whatever the input tokens, and a hook result emits nothing; so
\* the driver's lookup u2d[x] of every character of the translation is
\* defined.
C23_OutputAlphabet ==
    /\ table_emits_cells
    /\ fsm = "BrailleTranslator"
       => /\ out_txt # None => Chars(out_txt[1]) \subseteq cell_chars
          /\ \A i \in 1..Len(out_seq) : Chars(out_seq[i][1]) \subseteq cell_chars
          /\ (pc = "loop" /\ in_seq # <<>> /\ in_seq[1][1] \notin DOMAIN table)
             => BrailleTranslator_transform(in_seq[1][1], in_seq[1][2], state)[1].out
                   = <<>>
          /\ pc # "KeyError"
          /\ pc = "done"
             => \A i \in 1..Len(unicode_dots) :
                   <<unicode_dots[i]>> \in DOMAIN unicode2dots

C23_Witness ==
    /\ entry = "tokens"
    /\ fsm = "BrailleTranslator"
    /\ pc = "returned"
    /\ input_txt = << <<Str("sing"), lower_tag>>, <<number_code, NoTag>> >>
    /\ out_seq = << <<dots2unicode[Str("011 100")] \o dots2unicode[Str("001 101")]
                      \o number_code, default>> >>

\* the text in the buffer, empty for None
buffered(b) == IF b = None THEN <<>> ELSE b[1]

RECURSIVE joined(_)
\* the texts of an outputPush list, joined in order
joined(out_) == IF out_ = <<>> THEN <<>> ELSE Head(out_).txt \o joined(Tail(out_))

\* C24: single output record.  During a run of BrailleTranslator the output
\* queue is empty: a pass of the loop appends the texts of the transition's
\* outputPush list to the buffer and flushes nothing.  The run returns no
\* record for an empty buffer and else one record, tagged 'default', whose
\* text is the buffer, and the driver's unicode_dots[0][0] is that text.
C24_SingleRecord ==
    [][/\ (fsm = "BrailleTranslator" /\ pc = "loop")
          => /\ out_seq = <<>>
             /\ (pc' = "loop" /\ in_seq # <<>>)
                => LET result == lookup(self, in_seq[1][1], in_seq[1][2], state)
                   IN /\ result # None
                      /\ \A i \in 1..Len(result[1].out) : ~result[1].out[i].is_end
                      /\ out_seq' = <<>>
                      /\ buffered(out_txt') = buffered(out_txt) \o joined(result[1].out)
             /\ pc' = "returned"
                => out_seq' = IF out_txt = None THEN <<>>
                              ELSE << <<out_txt[1], default>> >>
       /\ (fsm = "BrailleTranslator" /\ pc = "returned" /\ pc' = "done")
          => unicode_dots' = buffered(out_txt)]_vars

C24_Witness ==
    /\ entry = "core"
    /\ fsm = "BrailleTranslator"
    /\ pc = "done"
    /\ input_txt = Str("Hi there.")
    /\ out_seq = << <<unicode_dots, default>> >>
    /\ Len(unicode_dots) = 10

\* C25: compositionality of translation.  When BrailleTranslator.process
\* returns for a token list, it returns for every A and B the list splits
\* into, and the text it returns for the list is the text it returns for A
\* followed by the text it returns for B.
C25_Compositional ==
    (entry = "tokens" /\ fsm = "BrailleTranslator" /\ pc = "returned")
    => \A k \in 0..Len(input_txt) :
          LET A == process(BrailleTranslator, token_list(SubSeq(input_txt, 1, k)))
              B == process(BrailleTranslator,
                           token_list(SubSeq(input_txt, k + 1, Len(input_txt))))
          IN /\ A.ret = "list"
             /\ B.ret = "list"
             /\ concat(out_seq) = concat(A.out_seq) \o concat(B.out_seq)

C25_Witness ==
    /\ entry = "tokens"
    /\ fsm = "BrailleTranslator"
    /\ pc = "returned"
    /\ input_txt = << <<Str("KE"), upper_tag>>, <<Str("12"), number_tag>> >>
    /\ concat(out_seq) = upper_code \o upper_code \o dots2unicode[Str("101 000")]
                         \o dots2unicode[Str("100 010")] \o number_code
                         \o dots2unicode[Str("100 000")]
                         \o dots2unicode[Str("110 000")]

\* the tag describes the text, as C26 lists the seven tags
sound(t, tag) ==
    LET cs == Chars(t)
    IN /\ t # <<>>
       /\ IF tag = lower_tag THEN cs \subseteq lowers
          ELSE IF tag = upper_tag THEN cs \subseteq uppers
          ELSE IF tag = mixed_tag
          THEN /\ cs \subseteq lowers \cup uppers
               /\ cs \cap lowers # {}
               /\ cs \cap uppers # {}
          ELSE IF tag = number_tag THEN cs \subseteq digits
          ELSE IF tag = alphanum_tag
          THEN /\ cs \subseteq lowers \cup uppers \cup digits
               /\ cs \cap (lowers \cup uppers) # {}
               /\ cs \cap digits # {}
          ELSE IF tag = punctuation_tag THEN cs \subseteq Chars(punct)
          ELSE IF tag = whitespace_tag THEN cs \subseteq Chars(white)
          ELSE FALSE

\* C26: tag soundness of the tokeniser.  The tag of every record of
\* BrailleTokeniser.process describes the record's text, and the state
\* describes the run in the buffer, also when unrecognised characters were
\* dropped inside the run.
C26_TagSoundness ==
    (entry = "core" /\ fsm = "BrailleTokeniser")
    => /\ \A i \in 1..Len(out_seq) : sound(out_seq[i][1], out_seq[i][2])
       /\ (pc = "loop" /\ out_txt # None) => sound(out_txt[1], state)

C26_Witness ==
    /\ entry = "core"
    /\ fsm = "BrailleTokeniser"
    /\ pc = "returned"
    /\ input_txt = Str("e!K")
    /\ out_seq = << <<Str("eK"), mixed_tag>> >>

====
